---- MODULE Spec2Model ----
(***************************************************************************)
(* SpeedExp.py: the cumulative export pipeline.                            *)
(*                                                                         *)
(* main() drives num_exports sequential exports; each export is one call   *)
(* of process_video_cumulative (ffmpeg path) or process_video_moviepy.     *)
(* The external tools (ffmpeg, ffprobe, moviepy) are the environment: an   *)
(* invocation returns any exit status and leaves any file; a probe reads   *)
(* the file's duration or fails (timeout, unreadable), in which case the   *)
(* helpers of the program report 0.                                        *)
(*                                                                         *)
(* Durations are whole ticks (TicksPerSecond ticks in a second).  Every    *)
(* quantity the program derives by division (target_sped_duration, tempo,  *)
(* video_pts, duration_error) is an exact rational <<n, d>>; the rounding  *)
(* of IEEE doubles is not modelled.  <<1, 0>> stands for float('inf').     *)
(***************************************************************************)
EXTENDS Integers, Sequences, FiniteSets, TLC

\* ---------------------------------------------------------------- bounds
MaxExports == 2
MaxDur == 3
MaxSizeKb == 3
MaxTaken == 3
TicksPerSecond == 1000

\* ------------------------------------------------------ program constants
MAX_SPEED_RETRIES == 10
OID_LIMIT == 999
PROBE_FAILED == 0
MIN_SIZE_KB == 0

\* -------------------------------------------------------------- rationals
Abs(x) == IF x < 0 THEN -x ELSE x

RECURSIVE GCD(_, _)
GCD(a, b) == IF b = 0 THEN a ELSE GCD(b, a % b)

Rat(n, d) ==
    IF d = 0 THEN <<1, 0>>
    ELSE LET g == GCD(Abs(n), Abs(d))
             s == IF d < 0 THEN -1 ELSE 1
         IN  <<(s * n) \div g, (s * d) \div g>>

Inf == <<1, 0>>
RatOf(n) == <<n, 1>>
RatMul(x, y) == Rat(x[1] * y[1], x[2] * y[2])
RatDiv(x, y) == Rat(x[1] * y[2], x[2] * y[1])
RatSub(x, y) == Rat(x[1] * y[2] - y[1] * x[2], x[2] * y[2])
RatAbs(x) == <<Abs(x[1]), x[2]>>
RatLT(x, y) == x[1] * y[2] < y[1] * x[2]
RatLE(x, y) == x[1] * y[2] <= y[1] * x[2]
RatMin(x, y) == IF RatLE(x, y) THEN x ELSE y
RatMax(x, y) == IF RatLE(x, y) THEN y ELSE x
IsZero(x) == x[1] = 0 /\ x[2] # 0

\* ------------------------------------------------------------ file system
NoFile == [exists |-> FALSE, dur |-> 0, by |-> <<"none", 0>>]
File(d, tag, k) == [exists |-> TRUE, dur |-> d, by |-> <<tag, k>>]

video_path == <<"video", 0, 0>>
ExportPath(n, oID) == <<"export", n, oID>>
temp_sped_of(n) == <<"temp_sped", n, 0>>
temp_list_of(n) == <<"temp_list", n, 0>>
temp_concat_of(n) == <<"temp_concat", n, 0>>
temp_nocolor_of(n) == <<"temp_nocolor", n, 0>>
NoPath == <<"", 0, 0>>

StartNums == {1}
ExportNums == {s + i : s \in StartNums, i \in 0 .. (MaxExports - 1)}
Paths ==
    {video_path}
    \cup {ExportPath(n, k) : n \in ExportNums, k \in 0 .. 1}
    \cup {temp_sped_of(n) : n \in ExportNums}
    \cup {temp_list_of(n) : n \in ExportNums}
    \cup {temp_concat_of(n) : n \in ExportNums}
    \cup {temp_nocolor_of(n) : n \in ExportNums}

VARIABLES cfg, files, pc, mn, ex, hist
vars == <<cfg, files, pc, mn, ex, hist>>

Exists(p) == p \in Paths /\ files[p].exists

\* os.remove inside try/except, or guarded by os.path.exists
Remove(fs, p) == [fs EXCEPT ![p] = NoFile]

\* what one ffprobe call can report for a file: its duration, or nothing
ProbeOutcomes(p) ==
    IF Exists(p) THEN {files[p].dur, PROBE_FAILED} ELSE {PROBE_FAILED}

\* one ffprobe call that works (ok) or does not: lines 250-307 and 640-667
\* report 0 for a file that is missing and for a probe that fails
Probe(fs, p, ok) == IF ok /\ fs[p].exists THEN fs[p].dur ELSE PROBE_FAILED

\* what one invocation of an external tool (ffmpeg, moviepy writer) can do:
\* report success or failure, and write the output file, with one of the
\* durations durs, or not
ToolOutcomes(input_ok, durs) ==
    IF input_ok
    THEN {[rc |-> r, wrote |-> TRUE, dur |-> d] : r \in {0, 1}, d \in durs}
         \cup {[rc |-> r, wrote |-> FALSE, dur |-> 0] : r \in {0, 1}}
    ELSE {[rc |-> 1, wrote |-> FALSE, dur |-> 0]}

\* the durations a sped-up clip can come out with: the transcoder's timing
\* is what the correction loop exists for, so any duration is possible;
\* the stream copy of the Duplication Stage doubles its input and the
\* encoders keep the duration (or leave a broken file of duration 0)
SpedDurs == 0 .. MaxDur

WriteOutput(fs, p, o, tag, k) ==
    IF o.wrote THEN [fs EXCEPT ![p] = File(o.dur, tag, k)] ELSE fs

\* --------------------------------------------------------- pure functions
get_file_extension(smooth_mode) == IF smooth_mode THEN ".mov" ELSE ".mp4"

\* variant: the search gives up one suffix early
SearchExhausted_Early(oID) == oID > OID_LIMIT - 1

\* line 626, read after the increment of line 625
SearchExhausted(oID) == oID > OID_LIMIT

\* lines 619-627: a path outside the file system fs describes does not
\* exist
RECURSIVE unique_oID(_, _, _)
unique_oID(fs, n, oID) ==
    IF ~(ExportPath(n, oID) \in DOMAIN fs /\ fs[ExportPath(n, oID)].exists)
    THEN oID
    ELSE IF SearchExhausted(oID + 1) THEN -1 ELSE unique_oID(fs, n, oID + 1)

\* variant: the unsuffixed name is used whether it is taken or not
get_unique_filename_Unsuffixed(fs, n) == 0

\* the oID of the unique path: 0 is the unsuffixed name, -1 is "Too many
\* duplicate files"
get_unique_filename(fs, n) ==
    IF ~fs[ExportPath(n, 0)].exists THEN 0 ELSE unique_oID(fs, n, 1)

\* variant: every file passes
verify_output_file_Always(exists, probed) == TRUE

\* variant: the probed duration is not looked at
verify_output_file_ExistsOnly(exists, probed) == exists

\* lines 640-667 with the min_size_kb argument: the size is compared only
\* when min_size_kb is positive
verify_output_file_min(exists, size_kb, min_size_kb, probed) ==
    IF ~exists THEN FALSE
    ELSE IF min_size_kb > 0 /\ size_kb < min_size_kb THEN FALSE
    ELSE probed > 0

\* every call (lines 1081, 1166, 1197, 1317) leaves min_size_kb at its
\* default, so the size of the file plays no part
verify_output_file(exists, probed) ==
    verify_output_file_min(exists, 0, MIN_SIZE_KB, probed)

select_codec_configs(smooth_mode, available) ==
    IF smooth_mode
    THEN (IF available.ffv1 THEN <<"FFV1 Lossless">> ELSE <<>>)
         \o <<"H.264 Lossless">>
    ELSE (IF available.libx264 \/ available.h264 THEN <<"H.264 Baseline">> ELSE <<>>)
         \o (IF available.libx264 THEN <<"H.264 Main", "H.264 Ultrafast">> ELSE <<>>)
         \o (IF available.mpeg4 THEN <<"MPEG4">> ELSE <<>>)
         \o <<"Fallback">>

Available == [libx264 : BOOLEAN, h264 : BOOLEAN, mpeg4 : BOOLEAN, ffv1 : BOOLEAN]

\* ------------------------------------------------------------------ state
FpsSet == {30, 1000}
SourceDurs == 1 .. 2

\* the file named at the first prompt: a video, a file without duration,
\* or no file at all
SourceFiles ==
    {File(d, "source", 0) : d \in SourceDurs} \cup {File(0, "source", 0), NoFile}

\* The answers get_user_inputs returns (lines 506-588) and the smooth-mode
\* and moviepy answers of main (lines 1595-1643).  Special pitch implies
\* pitch (lines 526-528).  The settings that steer one stage only are varied
\* where that stage is reached cheaply: the lossless candidate list in mode
\* None, colour mode under moviepy, the high frame rate in fixed-pitch runs
\* of one export, the pitch modes in runs of up to two exports (one even
\* and one odd iteration; a third export enters the corrector as the
\* second does, from an input that is an earlier output).  num_exports is the number typed at the prompt, 0
\* included.  rm_fails is not an answer but the one property of the
\* file system that is fixed for a run: whether it can refuse the deletions
\* of the finalizer; a temporary left behind is never touched by a later
\* export (its name carries the export number), so this is varied in the
\* runs of one export and in those of two with the shortest pipelines
\* (moviepy, and the lossless candidate list).
Configs ==
    {c \in [use_moviepy : BOOLEAN, enable_pitch : BOOLEAN,
            enable_special_pitch : BOOLEAN, enable_color_mode : BOOLEAN,
            smooth_mode : BOOLEAN, num_exports : 0 .. MaxExports,
            start_num : StartNums, original_fps : FpsSet,
            rm_fails : BOOLEAN] :
        /\ c.enable_special_pitch => c.enable_pitch
        /\ c.enable_pitch => c.num_exports <= 2
        /\ c.smooth_mode => ~c.enable_pitch /\ ~c.use_moviepy
        /\ c.enable_color_mode => c.use_moviepy
        /\ c.original_fps # 30 =>
               /\ c.enable_pitch /\ ~c.enable_special_pitch
               /\ ~c.use_moviepy /\ c.num_exports = 1
        /\ c.num_exports = 0 =>
               ~c.smooth_mode /\ ~c.enable_color_mode /\ ~c.enable_special_pitch
        /\ c.rm_fails =>
               /\ c.original_fps = 30 /\ ~c.enable_special_pitch
               /\ c.num_exports <= (IF c.smooth_mode \/ c.use_moviepy
                                    THEN 2 ELSE 1)}

ExInit ==
    [export_num |-> 0, input_duration |-> 0,
     target_sped_duration |-> RatOf(0),
     tempo |-> RatOf(0), video_pts |-> RatOf(0),
     best_tempo |-> RatOf(0), best_video_pts |-> RatOf(0),
     best_error |-> Inf, best_duration |-> 0,
     attempt |-> 0, actual_sped_duration |-> 0, duration_error |-> RatOf(0),
     final_sped_duration |-> 0, final_error |-> RatOf(0),
     concat_duration |-> 0,
     codec_configs |-> <<>>, k |-> 1, success |-> FALSE,
     temp_files |-> {}, raised |-> "none", returned |-> FALSE]

\* history of the current export (not program state): the speedup
\* invocations made and whether one of them failed, the error of the first
\* attempt, the best error before the last attempt, how the loop ended,
\* where an exception was raised, the candidates tried, whether a probe
\* reported 0 for a file that has a duration, the smallest error measured
\* so far with the plan and the duration of the first attempt that measured
\* it, the exit status of the concat invocation (-1 before it), and, once
\* the call has ended,
\* the temporaries its finalizer went through, those whose deletion failed
\* and those it deleted
HistInit ==
    [speed_calls |-> 0, speed_bad |-> FALSE, first_error |-> Inf,
     prev_best |-> Inf, outcome |-> "none", rerun |-> FALSE,
     raised_at |-> "none", tried |-> <<>>, accepted |-> 0,
     exhausted |-> FALSE, planned |-> FALSE, attempts |-> 0,
     probe_fault |-> FALSE,
     earliest_min |-> [error |-> Inf, tempo |-> RatOf(0),
                       video_pts |-> RatOf(0), duration |-> 0],
     concat_rc |-> -1,
     cleanup_tried |-> {}, cleanup_left |-> {}, cleanup_removed |-> {}]

Init ==
    /\ cfg \in Configs
    /\ \E src \in SourceFiles, pre \in {{}, {ExportPath(cfg.start_num, 0)}} :
         files = [p \in Paths |->
                    IF p = video_path THEN src
                    ELSE IF p \in pre THEN File(1, "old", 0)
                    ELSE NoFile]
    /\ pc = "deps"
    /\ mn = [i |-> 0, current_input |-> video_path, output_path |-> NoPath,
             exported_files |-> <<>>, original_video_duration |-> 0,
             exit_code |-> -1, error |-> "none", targets |-> {},
             hue_failed |-> FALSE]
    /\ ex = ExInit
    /\ hist = HistInit

\* ------------------------------------------------------------------- main
\* lines 1580 and 95-101: ffmpeg and ffprobe must be installed
CheckDependencies ==
    /\ pc = "deps"
    /\ \E found \in BOOLEAN :
         IF found
         THEN pc' = "inputs" /\ UNCHANGED mn
         ELSE pc' = "main_except" /\ mn' = [mn EXCEPT !.error = "SystemError"]
    /\ UNCHANGED <<cfg, files, ex, hist>>

\* lines 215-240: the file exists and ffprobe reports a positive duration
validate_video_file(exists, probed) ==
    IF ~exists THEN "FileNotFoundError"
    ELSE IF probed <= 0 THEN "ValueError: video"
    ELSE "ok"

\* variant: the count is only required to be a number
ExportsAccepted_AnyNumber(num_exports) == num_exports >= 0

\* lines 507-512
ExportsAccepted(num_exports) == num_exports > 0

\* lines 1595-1662 and 493-591: the prompts are answered in order; moviepy
\* must be importable when it is asked for, the video is validated, the
\* number of exports is read
GetUserInputs ==
    /\ pc = "inputs"
    /\ \E moviepy_available \in BOOLEAN, probed \in ProbeOutcomes(video_path) :
         LET v == validate_video_file(files[video_path].exists, probed)
             error == IF cfg.use_moviepy /\ ~moviepy_available THEN "SystemError"
                      ELSE IF v # "ok" THEN v
                      ELSE IF ~ExportsAccepted(cfg.num_exports)
                           THEN "ValueError: exports"
                      ELSE "none"
         IN  IF error = "none"
             THEN pc' = "setup" /\ UNCHANGED mn
             ELSE pc' = "main_except" /\ mn' = [mn EXCEPT !.error = error]
    /\ UNCHANGED <<cfg, files, ex, hist>>

\* main, lines 1664-1733: the source is probed once
MainSetup ==
    /\ pc = "setup"
    /\ \E d \in ProbeOutcomes(video_path) :
         mn' = [mn EXCEPT !.original_video_duration = d]
    /\ pc' = "loop"
    /\ UNCHANGED <<cfg, files, ex, hist>>

\* main, lines 1741-1745 and 1784-1816: the head of one iteration
MainLoop ==
    /\ pc = "loop"
    /\ mn.i < cfg.num_exports
    /\ LET export_num == cfg.start_num + mn.i
           oID == get_unique_filename(files, export_num)
       IN  IF oID < 0
           THEN /\ pc' = "main_except"
                /\ mn' = [mn EXCEPT !.error = "RuntimeError"]
                /\ UNCHANGED <<ex, hist>>
           ELSE /\ mn' = [mn EXCEPT !.output_path = ExportPath(export_num, oID)]
                /\ ex' = [ExInit EXCEPT !.export_num = export_num]
                /\ hist' = HistInit
                /\ pc' = IF cfg.use_moviepy THEN "mp_open" ELSE "start"
    /\ UNCHANGED <<cfg, files>>

\* main, lines 1859-1912: every export is done; the summary divides each
\* file's size by the size get_video_info reported for the source (0 when
\* that probe had failed: the value is read only here), then the
\* compilation is offered, which raises when it fails
MainDone ==
    /\ pc = "loop"
    /\ mn.i >= cfg.num_exports
    /\ \E initial_size_known \in BOOLEAN, compile \in {"skip", "ok", "raise"} :
         IF ~initial_size_known /\ Len(mn.exported_files) > 0
         THEN pc' = "main_except" /\ mn' = [mn EXCEPT !.error = "Exception"]
         ELSE IF compile = "raise"
         THEN pc' = "main_except" /\ mn' = [mn EXCEPT !.error = "RuntimeError"]
         ELSE pc' = "exited" /\ mn' = [mn EXCEPT !.exit_code = 0]
    /\ UNCHANGED <<cfg, files, ex, hist>>

\* main, lines 1769-1775 and 1839-1857: the export returned
MainAfterExport ==
    /\ pc = "after_export"
    /\ IF ~ex.returned
       THEN pc' = "main_except" /\ mn' = [mn EXCEPT !.error = "RuntimeError"]
       ELSE /\ mn' = [mn EXCEPT !.exported_files = Append(@, mn.output_path),
                                !.current_input = mn.output_path,
                                !.i = @ + 1]
            /\ pc' = "loop"
    /\ UNCHANGED <<cfg, files, ex, hist>>

\* lines 1914-1933: every handler ends with sys.exit(1)
ExitCodeOnError(error) == 1

\* main, lines 1777-1779 and 1914-1933: any exception ends the process
MainExcept ==
    /\ pc = "main_except"
    /\ mn' = [mn EXCEPT !.exit_code = ExitCodeOnError(mn.error)]
    /\ pc' = "exited"
    /\ UNCHANGED <<cfg, files, ex, hist>>

\* ----------------------------------------- process_video_cumulative (ffmpeg)
\* variant: the correction loop runs in every mode
UsesCorrection_Always(enable_pitch, enable_special_pitch) == TRUE

UsesCorrection(enable_pitch, enable_special_pitch) ==
    enable_pitch \/ enable_special_pitch

\* variant: the target follows the duration of the current input
TargetBase_Input(original_video_duration, input_duration) == input_duration

\* line 1017: the base of the target is the duration main measured once
TargetBase(original_video_duration, input_duration) == original_video_duration

\* The state of one run of the program and an action's effect on it
Cur == [files |-> files, pc |-> pc, mn |-> mn, ex |-> ex, hist |-> hist]

Becomes(s) ==
    /\ files' = s.files
    /\ pc' = s.pc
    /\ mn' = s.mn
    /\ ex' = s.ex
    /\ hist' = s.hist
    /\ UNCHANGED cfg

\* The steps of one export.  Each takes the settings c, the state s of the
\* run and what the environment does: o is what the invoked tool does, the
\* flags say whether each ffprobe call works.
\* lines 978-1002: the input is probed, the temporaries are named
ProbeInputStep(c, s, probe_ok) ==
    LET d == Probe(s.files, s.mn.current_input, probe_ok) IN
    [s EXCEPT
        !.ex = [@ EXCEPT !.input_duration = d,
                         !.temp_files = {temp_sped_of(s.ex.export_num),
                                         temp_list_of(s.ex.export_num),
                                         temp_concat_of(s.ex.export_num)}],
        !.hist = [@ EXCEPT !.probe_fault = d # s.files[s.mn.current_input].dur],
        !.pc = "plan"]

ProbeInput ==
    /\ pc = "start"
    /\ \E probe_ok \in BOOLEAN :
         Becomes(ProbeInputStep(cfg, Cur, probe_ok))

\* lines 1004-1046 (pitch modes) and 1136-1138 (mode None)
PlanStep(c, s) ==
    IF UsesCorrection(c.enable_pitch, c.enable_special_pitch)
    THEN LET target == Rat(TargetBase(s.mn.original_video_duration,
                                      s.ex.input_duration), 2)
             initial_tempo == RatDiv(RatOf(s.ex.input_duration), target)
             initial_video_pts == RatDiv(target, RatOf(s.ex.input_duration))
         IN  IF IsZero(target) \/ s.ex.input_duration = 0
             THEN [s EXCEPT
                     !.mn = [@ EXCEPT !.targets = @ \cup {target}],
                     !.ex = [@ EXCEPT !.target_sped_duration = target,
                                      !.raised = "ZeroDivisionError"],
                     !.pc = "finally",
                     !.hist = [@ EXCEPT !.raised_at = "plan"]]
             ELSE [s EXCEPT
                     !.mn = [@ EXCEPT !.targets = @ \cup {target}],
                     !.ex = [@ EXCEPT !.target_sped_duration = target,
                                      !.tempo = initial_tempo,
                                      !.video_pts = initial_video_pts,
                                      !.best_tempo = initial_tempo,
                                      !.best_video_pts = initial_video_pts,
                                      !.best_error = Inf,
                                      !.best_duration = 0],
                     !.pc = "attempt",
                     !.hist = [@ EXCEPT !.planned = TRUE]]
    ELSE [s EXCEPT
            !.ex = [@ EXCEPT !.tempo = RatOf(2), !.video_pts = Rat(1, 2)],
            !.pc = "speedup"]

Plan ==
    /\ pc = "plan"
    /\ Becomes(PlanStep(cfg, Cur))

\* variant: the frame duration is left out of the threshold
precision_threshold_MsOnly(original_fps) == Rat(TicksPerSecond, 1000)

\* lines 1041 and 1097, in ticks: min(0.001, frame_duration / 2)
precision_threshold(original_fps) ==
    RatMin(Rat(TicksPerSecond, 1000), Rat(TicksPerSecond, 2 * original_fps))

\* variant: an attempt that ties the best one replaces it
IsBetter_OrEqual(duration_error, best_error) == RatLE(duration_error, best_error)

\* variant: the latest attempt always replaces the best one
IsBetter_Latest(duration_error, best_error) == TRUE

\* line 1091
IsBetter(duration_error, best_error) == RatLT(duration_error, best_error)

\* variant: a stagnating loop is treated as a failed transcode
LoopControl_Fatal(rc, valid, attempt, duration_error, best_error, threshold) ==
    IF rc # 0 THEN "failed"
    ELSE IF ~valid THEN "invalid"
    ELSE IF RatLE(duration_error, threshold) THEN "break"
    ELSE IF attempt > 0 /\ RatLE(best_error, duration_error) /\ attempt >= 3
         THEN "invalid"
    ELSE "retry"

\* variant: the stagnation stop asks for an error above the tracked best
LoopControl_Improving(rc, valid, attempt, duration_error, best_error, threshold) ==
    IF rc # 0 THEN "failed"
    ELSE IF ~valid THEN "invalid"
    ELSE IF RatLE(duration_error, threshold) THEN "break"
    ELSE IF attempt > 0 /\ RatLT(best_error, duration_error) /\ attempt >= 3
         THEN "stagnated"
    ELSE "retry"

\* lines 1076-1117: what one attempt leads to.  best_error is the value
\* after the update of lines 1091-1095
LoopControl(rc, valid, attempt, duration_error, best_error, threshold) ==
    IF rc # 0 THEN "failed"
    ELSE IF ~valid THEN "invalid"
    ELSE IF RatLE(duration_error, threshold) THEN "break"
    ELSE IF attempt > 0 /\ RatLE(best_error, duration_error) /\ attempt >= 3
         THEN "stagnated"
    ELSE "retry"

\* variant: the stagnation stop never runs the transcoder again
RerunNeeded_Never(best_duration, actual_sped_duration) == FALSE

\* line 1107
RerunNeeded(best_duration, actual_sped_duration) ==
    best_duration # actual_sped_duration

\* variant: the tempo is not clamped
ClampTempo_Unclamped(tempo) == tempo

\* lines 1127-1128
ClampTempo(tempo) == RatMax(Rat(1, 2), RatMin(tempo, RatOf(100)))
ClampPts(video_pts) == RatMax(Rat(1, 100), RatMin(video_pts, RatOf(2)))

DurationError(duration, target) == RatAbs(RatSub(RatOf(duration), target))

\* lines 1064-1074: the clip of the attempt before is deleted and the
\* transcoder is run; o is what it does
SpeedCall(fs, sped, o, tag, k) == WriteOutput(Remove(fs, sped), sped, o, tag, k)

\* lines 1051-1128: one iteration of the correction loop, with the probe
\* of verify_output_file and the one of get_precise_duration
AttemptStep(c, s, o, verify_ok, measure_ok) ==
    LET e == s.ex
        sped == temp_sped_of(e.export_num)
        fs2 == SpeedCall(s.files, sped, o, "attempt", e.attempt)
        vp == Probe(fs2, sped, verify_ok)
        actual == Probe(fs2, sped, measure_ok)
        valid == verify_output_file(fs2[sped].exists, vp)
        err == DurationError(actual, e.target_sped_duration)
        better == IsBetter(err, e.best_error)
        best_error1 == IF better THEN err ELSE e.best_error
        best_duration1 == IF better THEN actual ELSE e.best_duration
        ctl == LoopControl(o.rc, valid, e.attempt, err, best_error1,
                           precision_threshold(c.original_fps))
        measured == [e EXCEPT
            !.actual_sped_duration = actual,
            !.duration_error = err,
            !.best_error = best_error1,
            !.best_tempo = IF better THEN e.tempo ELSE @,
            !.best_video_pts = IF better THEN e.video_pts ELSE @,
            !.best_duration = best_duration1]
        tempo1 == RatMul(e.tempo, RatDiv(RatOf(actual), e.target_sped_duration))
        h1 == [s.hist EXCEPT
            !.speed_calls = @ + 1,
            !.speed_bad = @ \/ o.rc # 0 \/ ~valid,
            !.first_error = IF e.attempt = 0 /\ o.rc = 0 /\ valid
                            THEN err ELSE @,
            !.prev_best = e.best_error,
            !.attempts = @ + 1,
            !.probe_fault = @ \/ vp # fs2[sped].dur \/ actual # fs2[sped].dur,
            !.earliest_min =
                IF o.rc = 0 /\ valid /\ RatMin(@.error, err) # @.error
                THEN [error |-> err, tempo |-> e.tempo,
                      video_pts |-> e.video_pts, duration |-> actual]
                ELSE @]
        s2 == [s EXCEPT !.files = fs2]
    IN  CASE ctl = "failed" ->
               [s2 EXCEPT !.ex = [e EXCEPT !.raised = "Speed-up failed"],
                          !.hist = [h1 EXCEPT !.raised_at = "attempt"],
                          !.pc = "finally"]
          [] ctl = "invalid" ->
               [s2 EXCEPT !.ex = [e EXCEPT !.raised = "Speed-up invalid"],
                          !.hist = [h1 EXCEPT !.raised_at = "attempt"],
                          !.pc = "finally"]
          [] ctl = "break" ->
               [s2 EXCEPT !.ex = measured,
                          !.hist = [h1 EXCEPT !.outcome = "converged"],
                          !.pc = "final"]
          [] ctl = "stagnated" ->
               [s2 EXCEPT !.ex = measured,
                          !.hist = [h1 EXCEPT !.outcome = "stagnated"],
                          !.pc = IF RerunNeeded(best_duration1, actual)
                                 THEN "rerun" ELSE "final"]
          [] ctl = "retry" ->
               IF IsZero(tempo1)
               THEN [s2 EXCEPT
                       !.ex = [measured EXCEPT !.tempo = tempo1,
                                               !.raised = "ZeroDivisionError"],
                       !.hist = [h1 EXCEPT !.raised_at = "attempt"],
                       !.pc = "finally"]
               ELSE [s2 EXCEPT
                       !.ex = [measured EXCEPT
                                 !.tempo = ClampTempo(tempo1),
                                 !.video_pts = ClampPts(RatDiv(RatOf(1), tempo1)),
                                 !.attempt = @ + 1],
                       !.hist = IF e.attempt + 1 < MAX_SPEED_RETRIES
                                THEN h1 ELSE [h1 EXCEPT !.outcome = "exhausted"],
                       !.pc = IF e.attempt + 1 < MAX_SPEED_RETRIES
                              THEN "attempt" ELSE "final"]

Attempt ==
    /\ pc = "attempt"
    /\ \E o \in ToolOutcomes(Exists(mn.current_input), SpedDurs),
          verify_ok \in BOOLEAN, measure_ok \in BOOLEAN :
         Becomes(AttemptStep(cfg, Cur, o, verify_ok, measure_ok))

\* lines 1107-1116: the stagnation stop runs the transcoder once more with
\* the best parameters; its result is not looked at
RerunStep(c, s, o) ==
    LET e == s.ex
        sped == temp_sped_of(e.export_num)
        fs2 == SpeedCall(s.files, sped, o, "rerun", e.attempt)
    IN  [s EXCEPT
           !.files = fs2,
           !.ex = [@ EXCEPT !.tempo = e.best_tempo,
                            !.video_pts = e.best_video_pts],
           !.hist = [@ EXCEPT
                  !.speed_calls = @ + 1,
                  !.rerun = TRUE,
                  !.speed_bad = @ \/ o.rc # 0 \/ ~fs2[sped].exists
                                  \/ fs2[sped].dur <= 0],
           !.pc = "final"]

Rerun ==
    /\ pc = "rerun"
    /\ \E o \in ToolOutcomes(Exists(mn.current_input), SpedDurs) :
         Becomes(RerunStep(cfg, Cur, o))

\* lines 1130-1134: the clip that goes on is measured and reported
FinalMeasureStep(c, s, probe_ok) ==
    LET d == Probe(s.files, temp_sped_of(s.ex.export_num), probe_ok) IN
    [s EXCEPT
        !.ex = [@ EXCEPT !.final_sped_duration = d,
                         !.final_error = DurationError(d, s.ex.target_sped_duration)],
        !.hist = [@ EXCEPT !.probe_fault =
                     @ \/ d # s.files[temp_sped_of(s.ex.export_num)].dur],
        !.pc = "concat"]

FinalMeasure ==
    /\ pc = "final"
    /\ \E probe_ok \in BOOLEAN :
         Becomes(FinalMeasureStep(cfg, Cur, probe_ok))

\* lines 1151-1174: mode None, one speedup at the fixed tempo
SpeedupStep(c, s, o, verify_ok, measure_ok) ==
    LET e == s.ex
        sped == temp_sped_of(e.export_num)
        fs2 == SpeedCall(s.files, sped, o, "speedup", 0)
        vp == Probe(fs2, sped, verify_ok)
        actual == Probe(fs2, sped, measure_ok)
        valid == verify_output_file(fs2[sped].exists, vp)
        h1 == [s.hist EXCEPT !.speed_calls = @ + 1,
                             !.speed_bad = @ \/ o.rc # 0 \/ ~valid]
        s2 == [s EXCEPT !.files = fs2]
    IN  IF o.rc # 0
        THEN [s2 EXCEPT !.ex = [e EXCEPT !.raised = "Speed-up failed"],
                        !.hist = [h1 EXCEPT !.raised_at = "speedup"],
                        !.pc = "finally"]
        ELSE IF ~valid
        THEN [s2 EXCEPT !.ex = [e EXCEPT !.raised = "Speed-up invalid"],
                        !.hist = [h1 EXCEPT !.raised_at = "speedup"],
                        !.pc = "finally"]
        ELSE [s2 EXCEPT !.ex = [e EXCEPT !.actual_sped_duration = actual],
                        !.hist = h1,
                        !.pc = "concat"]

Speedup ==
    /\ pc = "speedup"
    /\ \E o \in ToolOutcomes(Exists(mn.current_input), SpedDurs),
          verify_ok \in BOOLEAN, measure_ok \in BOOLEAN :
         Becomes(SpeedupStep(cfg, Cur, o, verify_ok, measure_ok))

\* The locals of the speedup step are not read after line 1174 (tempo is
\* only printed again): the state of the later stages does not carry them.
AfterSpeedup(e) ==
    [ExInit EXCEPT !.export_num = e.export_num,
                   !.input_duration = e.input_duration,
                   !.target_sped_duration = e.target_sped_duration,
                   !.temp_files = e.temp_files]

\* lines 1180-1199: the list is written and the stream copy is run
ConcatCall(fs, n, o) ==
    WriteOutput([fs EXCEPT ![temp_list_of(n)] = File(0, "list", 0)],
                temp_concat_of(n), o, "concat", 0)

\* lines 1179-1208: the Duplication Stage
ConcatStep(c, s, o, verify_ok, measure_ok) ==
    LET e == s.ex
        cat == temp_concat_of(e.export_num)
        fs2 == ConcatCall(s.files, e.export_num, o)
        vp == Probe(fs2, cat, verify_ok)
        d == Probe(fs2, cat, measure_ok)
        valid == verify_output_file(fs2[cat].exists, vp)
        s2 == [s EXCEPT !.files = fs2]
    IN  IF o.rc # 0
        THEN [s2 EXCEPT !.ex = [AfterSpeedup(e) EXCEPT !.raised = "Concat failed"],
                        !.hist = [HistInit EXCEPT !.raised_at = "concat",
                                                  !.concat_rc = o.rc],
                        !.pc = "finally"]
        ELSE IF ~valid
        THEN [s2 EXCEPT !.ex = [AfterSpeedup(e) EXCEPT !.raised = "Concat invalid"],
                        !.hist = [HistInit EXCEPT !.raised_at = "concat",
                                                  !.concat_rc = o.rc],
                        !.pc = "finally"]
        ELSE [s2 EXCEPT !.ex = [AfterSpeedup(e) EXCEPT !.concat_duration = d],
                        !.hist = [HistInit EXCEPT !.concat_rc = o.rc],
                        !.pc = "codecs"]

Concat ==
    /\ pc = "concat"
    /\ LET sped == temp_sped_of(ex.export_num) IN
       \E o \in ToolOutcomes(Exists(sped), {0, 2 * files[sped].dur}),
          verify_ok \in BOOLEAN, measure_ok \in BOOLEAN :
         Becomes(ConcatStep(cfg, Cur, o, verify_ok, measure_ok))

\* lines 1213-1240: the bitrate is derived, the candidates are listed
CodecsStep(c, s, available) ==
    IF s.ex.concat_duration = 0
    THEN [s EXCEPT !.ex = [@ EXCEPT !.raised = "ZeroDivisionError"],
                   !.hist = [@ EXCEPT !.raised_at = "codecs"],
                   !.pc = "finally"]
    ELSE [s EXCEPT
            !.ex = [@ EXCEPT
                     !.codec_configs = select_codec_configs(c.smooth_mode, available),
                     !.success = FALSE,
                     !.k = 1],
            !.pc = "encode"]

Codecs ==
    /\ pc = "codecs"
    /\ \E available \in Available :
         Becomes(CodecsStep(cfg, Cur, available))

\* variant: the loop does not stop at the first accepted candidate
EncodeLoopContinues_NoBreak(success, k, n) == k <= n

\* lines 1242-1244: the loop goes on to candidate k
EncodeLoopContinues(success, k, n) == ~success /\ k <= n

\* lines 1316-1318
CandidateAccepted(rc, valid) == rc = 0 /\ valid

\* variant: a file left at the output path stays
RemoveStale_Keep(fs, p) == fs

\* lines 1253-1257: a file left at the output path is deleted first
RemoveStale(fs, p) == Remove(fs, p)

\* lines 1253-1314: the output path is cleared and the encoder is run
EncodeCall(fs, out, o, k) == WriteOutput(RemoveStale(fs, out), out, o, "encode", k)

\* lines 1242-1332: one encoder candidate
EncodeStep(c, s, o, verify_ok) ==
    LET e == s.ex
        out == s.mn.output_path
        fs2 == EncodeCall(s.files, out, o, e.k)
        vp == Probe(fs2, out, verify_ok)
        valid == verify_output_file(fs2[out].exists, vp)
        ok == CandidateAccepted(o.rc, valid)
    IN  [s EXCEPT
           !.files = fs2,
           !.ex = [@ EXCEPT !.success = @ \/ ok, !.k = @ + 1],
           !.hist = [@ EXCEPT
                  !.tried = Append(@, e.codec_configs[e.k]),
                  !.accepted = IF ok THEN e.k ELSE @],
           !.pc = "encode"]

Encode ==
    /\ pc = "encode"
    /\ EncodeLoopContinues(ex.success, ex.k, Len(ex.codec_configs))
    /\ LET cat == temp_concat_of(ex.export_num) IN
       \E o \in ToolOutcomes(Exists(cat), {0, files[cat].dur}),
          verify_ok \in BOOLEAN :
         Becomes(EncodeStep(cfg, Cur, o, verify_ok))

\* variant: the exhausted list is not noticed
AllCodecsFailed_Never(success) == FALSE

\* line 1334
AllCodecsFailed(success) == ~success

\* lines 1334-1351: after the loop
EncodeEndStep(c, s) ==
    IF AllCodecsFailed(s.ex.success)
    THEN [s EXCEPT !.ex = [@ EXCEPT !.raised = "All codecs failed"],
                   !.hist = [@ EXCEPT !.raised_at = "encode",
                                      !.exhausted = ~s.ex.success],
                   !.pc = "finally"]
    ELSE [s EXCEPT !.ex = [@ EXCEPT !.returned = TRUE],
                   !.hist = [@ EXCEPT !.exhausted = ~s.ex.success],
                   !.pc = "finally"]

EncodeEnd ==
    /\ pc = "encode"
    /\ ~EncodeLoopContinues(ex.success, ex.k, Len(ex.codec_configs))
    /\ Becomes(EncodeEndStep(cfg, Cur))

RECURSIVE RemoveAll(_, _)
RemoveAll(fs, ps) ==
    IF ps = {} THEN fs
    ELSE LET p == CHOOSE q \in ps : TRUE
         IN  RemoveAll(Remove(fs, p), ps \ {p})

\* the record of which invocation wrote the output ends with the call
Returned(fs, out) ==
    IF fs[out].exists THEN [fs EXCEPT ![out].by = <<"export", 0>>] ELSE fs

\* variant: a deletion that fails ends the finalizer's loop
Cleanup_StopAtFirst(fs, ps, stuck) ==
    IF stuck = {} THEN RemoveAll(fs, ps) ELSE fs

\* lines 1357-1362 and 844-849: every temporary that exists is deleted; a
\* deletion that fails (the files of stuck) is passed over by the bare
\* except and the loop goes on
Cleanup(fs, ps, stuck) == RemoveAll(fs, ps \ stuck)

\* lines 1353-1362 and 833-849: the exception is wrapped in a RuntimeError,
\* the temporaries are deleted (but for those of stuck), the call returns
\* or raises and its locals are gone
FinallyStep(c, s, stuck) ==
    LET e == s.ex
        present == {p \in e.temp_files : s.files[p].exists}
    IN  [s EXCEPT
           !.files = Returned(Cleanup(s.files, e.temp_files, stuck),
                              s.mn.output_path),
           !.hist = [HistInit EXCEPT !.cleanup_tried = e.temp_files,
                                     !.cleanup_left = stuck,
                                     !.cleanup_removed = present \ stuck],
           !.ex = [ExInit EXCEPT !.raised = e.raised, !.returned = e.returned],
           !.pc = IF e.raised # "none" THEN "main_except" ELSE "after_export",
           !.mn = [@ EXCEPT !.error = IF e.raised # "none"
                                      THEN "RuntimeError" ELSE @]]

Finally ==
    /\ pc = "finally"
    /\ LET present == {p \in ex.temp_files : files[p].exists} IN
       \E stuck \in (IF cfg.rm_fails THEN SUBSET present ELSE {{}}) :
         Becomes(FinallyStep(cfg, Cur, stuck))

\* A KeyboardInterrupt can arrive at any point.  Inside an export it is
\* not caught by "except Exception" (lines 833, 1353): the finalizer runs
\* and main's handler (line 1914) ends the process.
Interrupt ==
    /\ pc \notin {"main_except", "exited"}
    /\ IF pc \in {"deps", "inputs", "setup", "loop", "after_export"}
       THEN UNCHANGED <<files, ex, hist>>
       ELSE LET present == {p \in ex.temp_files : files[p].exists} IN
            \E stuck \in (IF cfg.rm_fails THEN SUBSET present ELSE {{}}) :
              /\ files' = Returned(Cleanup(files, ex.temp_files, stuck), mn.output_path)
              /\ hist' = [HistInit EXCEPT !.cleanup_tried = ex.temp_files,
                                          !.cleanup_left = stuck,
                                          !.cleanup_removed = present \ stuck]
              /\ ex' = [ExInit EXCEPT !.raised = "KeyboardInterrupt"]
    /\ mn' = [mn EXCEPT !.error = "KeyboardInterrupt"]
    /\ pc' = "main_except"
    /\ UNCHANGED cfg

\* -------------------------------------------------- process_video_moviepy
\* lines 692-753: the input is opened (VideoFileClip raises on a file it
\* cannot read), sped up and doubled in memory
MoviepyOpen ==
    /\ pc = "mp_open"
    /\ \E d \in ProbeOutcomes(mn.current_input) :
         IF d <= 0
         THEN /\ ex' = [ex EXCEPT !.raised = "MoviePy error"]
              /\ hist' = [hist EXCEPT !.raised_at = "mp_open"]
              /\ pc' = "finally"
         ELSE /\ ex' = [ex EXCEPT !.input_duration = d]
              /\ hist' = hist
              /\ pc' = "mp_write"
    /\ UNCHANGED <<cfg, files, mn>>

\* lines 780-806 and 821-829: write_videofile, to a temporary in colour
\* mode and to the output path otherwise; it raises when it fails
MoviepyWrite ==
    /\ pc = "mp_write"
    /\ LET nocolor == temp_nocolor_of(ex.export_num)
           dest == IF cfg.enable_color_mode THEN nocolor ELSE mn.output_path
       IN  \E o \in ToolOutcomes(TRUE, SpedDurs) :
           /\ files' = WriteOutput(files, dest, o, "moviepy", 0)
           /\ IF o.rc # 0
              THEN /\ ex' = [ex EXCEPT
                         !.temp_files = IF cfg.enable_color_mode THEN {nocolor} ELSE {},
                         !.raised = "MoviePy error"]
                   /\ hist' = [hist EXCEPT !.raised_at = "mp_write"]
                   /\ pc' = "finally"
              ELSE /\ hist' = hist
                   /\ IF cfg.enable_color_mode
                      THEN /\ ex' = [ex EXCEPT !.temp_files = {nocolor}]
                           /\ pc' = "mp_hue"
                      ELSE /\ ex' = [ex EXCEPT !.returned = TRUE]
                           /\ pc' = "finally"
    /\ UNCHANGED <<cfg, mn>>

\* lines 808-831: the hue pass; its result is not looked at (hue_failed
\* records, outside the program's state, that it exited non-zero)
MoviepyHue ==
    /\ pc = "mp_hue"
    /\ \E o \in ToolOutcomes(Exists(temp_nocolor_of(ex.export_num)),
                           {0, files[temp_nocolor_of(ex.export_num)].dur}) :
         /\ files' = WriteOutput(files, mn.output_path, o, "hue", 0)
         /\ mn' = [mn EXCEPT !.hue_failed = @ \/ o.rc # 0]
    /\ ex' = [ex EXCEPT !.returned = TRUE]
    /\ pc' = "finally"
    /\ UNCHANGED <<cfg, hist>>

Next ==
    \/ CheckDependencies
    \/ GetUserInputs
    \/ Interrupt
    \/ MainSetup
    \/ MainLoop
    \/ MainDone
    \/ MainAfterExport
    \/ MainExcept
    \/ ProbeInput
    \/ Plan
    \/ Attempt
    \/ Rerun
    \/ FinalMeasure
    \/ Speedup
    \/ Concat
    \/ Codecs
    \/ Encode
    \/ EncodeEnd
    \/ Finally
    \/ MoviepyOpen
    \/ MoviepyWrite
    \/ MoviepyHue

Spec == Init /\ [][Next]_vars

\* --------------------------------------------------- one export, run twice
\* process_video_cumulative called twice with the same arguments, the two
\* runs side by side: files, pc, mn, ex and hist hold a pair, one state per
\* run, and each step draws what the tools do once and hands it to both
\* runs.  What differs is what only one run finds: the first starts with
\* nothing at the output path, the second with a file left there.  (The
\* temporaries carry the process id in their names, lines 998-1000, so a
\* run does not meet those of another process.)
TwinConfigs == {c \in Configs : ~c.use_moviepy /\ c.num_exports = 1}

Run(i) == [files |-> files[i], pc |-> pc[i], mn |-> mn[i], ex |-> ex[i],
           hist |-> hist[i]]

BothAt(l) == pc = <<l, l>>

BothBecome(a, b) ==
    /\ files' = <<a.files, b.files>>
    /\ pc' = <<a.pc, b.pc>>
    /\ mn' = <<a.mn, b.mn>>
    /\ ex' = <<a.ex, b.ex>>
    /\ hist' = <<a.hist, b.hist>>
    /\ UNCHANGED cfg

TwinInit ==
    /\ cfg \in TwinConfigs
    /\ \E src \in SourceFiles, original_ok \in BOOLEAN :
         LET out == ExportPath(cfg.start_num, 0)
             fs == [p \in Paths |-> IF p = video_path THEN src ELSE NoFile]
             m == [i |-> 0, current_input |-> video_path, output_path |-> out,
                   exported_files |-> <<>>,
                   original_video_duration |-> Probe(fs, video_path, original_ok),
                   exit_code |-> -1, error |-> "none", targets |-> {},
                   hue_failed |-> FALSE]
         IN  /\ files = <<fs, [fs EXCEPT ![out] = File(1, "old", 0)]>>
             /\ mn = <<m, m>>
    /\ pc = <<"start", "start">>
    /\ ex = <<[ExInit EXCEPT !.export_num = cfg.start_num],
              [ExInit EXCEPT !.export_num = cfg.start_num]>>
    /\ hist = <<HistInit, HistInit>>

TwinProbeInput ==
    /\ BothAt("start")
    /\ \E probe_ok \in BOOLEAN :
         BothBecome(ProbeInputStep(cfg, Run(1), probe_ok),
                    ProbeInputStep(cfg, Run(2), probe_ok))

TwinPlan ==
    /\ BothAt("plan")
    /\ BothBecome(PlanStep(cfg, Run(1)), PlanStep(cfg, Run(2)))

TwinAttempt ==
    /\ BothAt("attempt")
    /\ \E o \in ToolOutcomes(files[1][mn[1].current_input].exists, SpedDurs),
          verify_ok \in BOOLEAN, measure_ok \in BOOLEAN :
         BothBecome(AttemptStep(cfg, Run(1), o, verify_ok, measure_ok),
                    AttemptStep(cfg, Run(2), o, verify_ok, measure_ok))

TwinRerun ==
    /\ BothAt("rerun")
    /\ \E o \in ToolOutcomes(files[1][mn[1].current_input].exists, SpedDurs) :
         BothBecome(RerunStep(cfg, Run(1), o), RerunStep(cfg, Run(2), o))

TwinFinalMeasure ==
    /\ BothAt("final")
    /\ \E probe_ok \in BOOLEAN :
         BothBecome(FinalMeasureStep(cfg, Run(1), probe_ok),
                    FinalMeasureStep(cfg, Run(2), probe_ok))

TwinSpeedup ==
    /\ BothAt("speedup")
    /\ \E o \in ToolOutcomes(files[1][mn[1].current_input].exists, SpedDurs),
          verify_ok \in BOOLEAN, measure_ok \in BOOLEAN :
         BothBecome(SpeedupStep(cfg, Run(1), o, verify_ok, measure_ok),
                    SpeedupStep(cfg, Run(2), o, verify_ok, measure_ok))

TwinConcat ==
    /\ BothAt("concat")
    /\ LET sped == temp_sped_of(ex[1].export_num) IN
       \E o \in ToolOutcomes(files[1][sped].exists, {0, 2 * files[1][sped].dur}),
          verify_ok \in BOOLEAN, measure_ok \in BOOLEAN :
         BothBecome(ConcatStep(cfg, Run(1), o, verify_ok, measure_ok),
                    ConcatStep(cfg, Run(2), o, verify_ok, measure_ok))

TwinCodecs ==
    /\ BothAt("codecs")
    /\ \E available \in Available :
         BothBecome(CodecsStep(cfg, Run(1), available),
                    CodecsStep(cfg, Run(2), available))

TwinEncode ==
    /\ BothAt("encode")
    /\ \A i \in {1, 2} :
         EncodeLoopContinues(ex[i].success, ex[i].k, Len(ex[i].codec_configs))
    /\ LET cat == temp_concat_of(ex[1].export_num) IN
       \E o \in ToolOutcomes(files[1][cat].exists, {0, files[1][cat].dur}),
          verify_ok \in BOOLEAN :
         BothBecome(EncodeStep(cfg, Run(1), o, verify_ok),
                    EncodeStep(cfg, Run(2), o, verify_ok))

TwinEncodeEnd ==
    /\ BothAt("encode")
    /\ \A i \in {1, 2} :
         ~EncodeLoopContinues(ex[i].success, ex[i].k, Len(ex[i].codec_configs))
    /\ BothBecome(EncodeEndStep(cfg, Run(1)), EncodeEndStep(cfg, Run(2)))

TwinFinally ==
    /\ BothAt("finally")
    /\ LET present == {p \in ex[1].temp_files : files[1][p].exists} IN
       \E stuck \in (IF cfg.rm_fails THEN SUBSET present ELSE {{}}) :
         BothBecome(FinallyStep(cfg, Run(1), stuck),
                    FinallyStep(cfg, Run(2), stuck))

TwinNext ==
    \/ TwinProbeInput
    \/ TwinPlan
    \/ TwinAttempt
    \/ TwinRerun
    \/ TwinFinalMeasure
    \/ TwinSpeedup
    \/ TwinConcat
    \/ TwinCodecs
    \/ TwinEncode
    \/ TwinEncodeEnd
    \/ TwinFinally

SpecTwin == TwinInit /\ [][TwinNext]_vars

\* ------------------------------------------- the acceptance of a candidate
\* Lines 1314-1332 on their own, with the size of the file the encoder
\* left: files is that file, mn the encoder's exit status and whether the
\* probe works, cfg the min_size_kb the call passes, ex the loop's verdict.
CandidateFiles ==
    {f \in [exists : BOOLEAN, size_kb : 0 .. MaxSizeKb, dur : 0 .. MaxDur] :
        ~f.exists => f.size_kb = 0 /\ f.dur = 0}

AcceptInit ==
    /\ cfg = [min_size_kb |-> MIN_SIZE_KB]
    /\ files \in CandidateFiles
    /\ mn \in [rc : {0, 1}, probe_ok : BOOLEAN]
    /\ pc = "invoked"
    /\ ex = [valid |-> FALSE, success |-> FALSE]
    /\ hist = <<>>

AcceptCandidate ==
    /\ pc = "invoked"
    /\ LET probed == IF mn.probe_ok /\ files.exists THEN files.dur
                     ELSE PROBE_FAILED
           valid == verify_output_file_min(files.exists, files.size_kb,
                                           cfg.min_size_kb, probed)
       IN  ex' = [valid |-> mn.rc = 0 /\ valid,
                  success |-> CandidateAccepted(mn.rc, valid)]
    /\ pc' = "checked"
    /\ UNCHANGED <<cfg, files, mn, hist>>

SpecAccept == AcceptInit /\ [][AcceptCandidate]_vars

\* ------------------------------------------------- get_unique_filename
\* The function on its own, one step per test of a name, against an
\* Exports directory in which the names of one export are taken up to some
\* suffix, with gaps: files is the directory, cfg the export number, mn the
\* oID being tried and, at the end, returned.
SuffixPaths(n) == {ExportPath(n, k) : k \in 0 .. OID_LIMIT + 1}

TakenUpTo == (-1 .. MaxTaken) \cup {OID_LIMIT - 1, OID_LIMIT, OID_LIMIT + 1}
Gaps == SUBSET {0, 1, MaxTaken, OID_LIMIT}

UniqueInit ==
    /\ cfg \in [n : ExportNums]
    /\ \E top \in TakenUpTo, gaps \in Gaps :
         files = [p \in SuffixPaths(cfg.n) |->
                    IF p[3] <= top /\ p[3] \notin gaps
                    THEN File(1, "old", 0) ELSE NoFile]
    /\ pc = "unsuffixed"
    /\ mn = [oID |-> 0]
    /\ ex = <<>>
    /\ hist = <<>>

\* lines 613-619: the unsuffixed name
UniqueFirst ==
    /\ pc = "unsuffixed"
    /\ IF ~files[ExportPath(cfg.n, 0)].exists
       THEN pc' = "returned" /\ UNCHANGED mn
       ELSE pc' = "search" /\ mn' = [oID |-> 1]
    /\ UNCHANGED <<cfg, files, ex, hist>>

\* lines 620-627: one turn of the loop
UniqueSearch ==
    /\ pc = "search"
    /\ IF ~files[ExportPath(cfg.n, mn.oID)].exists
       THEN pc' = "returned" /\ UNCHANGED mn
       ELSE IF SearchExhausted(mn.oID + 1)
       THEN pc' = "raised" /\ mn' = [oID |-> -1]
       ELSE pc' = "search" /\ mn' = [oID |-> mn.oID + 1]
    /\ UNCHANGED <<cfg, files, ex, hist>>

UniqueNext == UniqueFirst \/ UniqueSearch

\* the loop is sequential code: it keeps running until it returns or raises
SpecUnique == UniqueInit /\ [][UniqueNext]_vars /\ WF_vars(UniqueNext)

\* ================================================================= claims
PitchExport == ~cfg.use_moviepy /\ (cfg.enable_pitch \/ cfg.enable_special_pitch)
NonPitchExport == ~cfg.use_moviepy /\ ~cfg.enable_pitch /\ ~cfg.enable_special_pitch
CorrectorDone == PitchExport /\ pc = "concat"
Threshold == precision_threshold(cfg.original_fps)
ClipError ==
    DurationError(files[temp_sped_of(ex.export_num)].dur, ex.target_sped_duration)

\* C1 (as stated): when the Convergence Corrector has finished without
\* raising, the duration error of the clip handed to the Duplication Stage
\* is at most the error measured on the first attempt.  Stated for the runs
\* in which every probe reported the file's duration.
C1_ClipNoWorseThanFirst ==
    (CorrectorDone /\ ~hist.probe_fault)
        => /\ RatLE(ex.final_error, hist.first_error)
           /\ RatLE(ClipError, hist.first_error)

\* C1 (amended): when the Convergence Corrector has finished without
\* raising, the lowest error measured in the loop (best_error, the error
\* recorded for the accepted plan) is at most the error of the first
\* attempt, and the clip handed on has exactly that error whenever it is
\* the clip the loop measured last (no re-run with the best parameters).
C1_BestNoWorseThanFirst ==
    CorrectorDone
        => /\ RatLE(ex.best_error, hist.first_error)
           /\ ~hist.rerun => ex.duration_error = ex.best_error
           /\ (~hist.rerun /\ ~hist.probe_fault)
                 => ex.final_error = ex.best_error /\ ClipError = ex.best_error

\* the corrector finished after a later attempt beat the first one
C1_Witness ==
    /\ CorrectorDone
    /\ hist.attempts >= 2
    /\ RatLT(ex.best_error, hist.first_error)

\* C2 (as stated): when convergence is not reached the loop is bounded at
\* exactly MAX_SPEED_RETRIES attempts: a loop that ends unconverged while
\* its last attempt still improved on every earlier one has made all 10.
C2_BoundedAtTen ==
    (PitchExport /\ pc \in {"rerun", "final", "concat"}
        /\ hist.outcome \in {"stagnated", "exhausted"}
        /\ RatLT(ex.duration_error, hist.prev_best))
        => hist.attempts = MAX_SPEED_RETRIES

\* C3: in mode None the plan is the fixed tempo 2 and time scale 1/2, the
\* correction loop is never entered and the speedup transcoder has been
\* invoked exactly once when the Duplication Stage is reached.
C3_FixedTempoOnce ==
    NonPitchExport
        => /\ pc \notin {"attempt", "rerun", "final"}
           /\ ~hist.planned
           /\ hist.speed_calls <= 1
           /\ pc = "speedup" => hist.speed_calls = 0
           /\ pc \in {"speedup", "concat"}
                 => ex.tempo = RatOf(2) /\ ex.video_pts = Rat(1, 2)
           /\ pc = "concat" => hist.speed_calls = 1

\* the one speedup came out at a duration that is not half the input
C3_Witness ==
    /\ NonPitchExport
    /\ pc = "concat"
    /\ hist.speed_calls = 1
    /\ 2 * ex.actual_sped_duration # ex.input_duration

\* C4 (as stated): export i+1 is started only on an input that export i
\* produced, that exists and that is valid (positive duration).
C4_NextInputValid ==
    (mn.i >= 1 /\ pc \in {"start", "mp_open"})
        => /\ mn.current_input = mn.exported_files[mn.i]
           /\ files[mn.current_input].exists
           /\ files[mn.current_input].dur > 0

C6_ExhaustedIsFatal ==
    /\ hist.exhausted
          => /\ pc = "finally"
             /\ ex.raised = "All codecs failed"
             /\ ~ex.returned
    /\ ex.raised = "All codecs failed"
          => /\ pc \in {"finally", "main_except", "exited"}
             /\ Len(mn.exported_files) = mn.i
             /\ pc = "exited" => mn.exit_code = 1

\* the run ended on an exhausted candidate list with an export still to do
C6_Witness ==
    /\ pc = "exited"
    /\ ex.raised = "All codecs failed"
    /\ mn.i + 1 < cfg.num_exports

\* C7 (as stated): the Duplication Stage is reached only if no speedup
\* invocation of the corrector, the re-run with the best parameters
\* included, reported failure or left a missing or empty output.
C7_BadInvocationAborts ==
    CorrectorDone => ~hist.speed_bad

C9_TargetFixed ==
    PitchExport
        => /\ mn.targets \subseteq {Rat(mn.original_video_duration, 2)}
           /\ pc \in {"attempt", "rerun", "final", "concat"}
                 => ex.target_sped_duration = Rat(mn.original_video_duration, 2)

\* a second export whose input differs in duration from the source
C9_Witness ==
    /\ PitchExport
    /\ mn.i = 1
    /\ pc = "attempt"
    /\ ex.input_duration # mn.original_video_duration
    /\ ex.target_sped_duration = Rat(mn.original_video_duration, 2)

\* C10 (as stated): when the probed input duration is zero or negative,
\* planning fails before any transcoder invocation, with an error that is
\* not a division by zero.
C10_NonPositiveInputRejected ==
    (PitchExport /\ ex.input_duration <= 0
        /\ (hist.planned \/ hist.raised_at = "plan"))
        => /\ ~hist.planned
           /\ hist.speed_calls = 0
           /\ ex.raised # "ZeroDivisionError"

\* the temporaries of the export that has just ended (main has not yet
\* counted it)
TempsOfEndedExport ==
    {temp_sped_of(cfg.start_num + mn.i), temp_list_of(cfg.start_num + mn.i),
     temp_concat_of(cfg.start_num + mn.i)}

ExportEnded ==
    /\ ~cfg.use_moviepy
    /\ pc = "after_export" \/ (pc = "main_except" /\ ex.raised # "none")

\* C11: when an export has ended, by returning or by raising, its finalizer
\* has gone through all three temporaries: every one of them that still
\* exists is one whose deletion failed, a failed deletion did not keep the
\* others from being deleted, and the way the export ended (returned or
\* raised, and with which error) is the one the pipeline had decided.
C11_CleanupBestEffort ==
    ExportEnded
        => /\ \/ hist.cleanup_tried = TempsOfEndedExport
              \/ /\ hist.cleanup_tried = {}
                 /\ ex.raised = "KeyboardInterrupt"
                 /\ \A p \in TempsOfEndedExport : ~files[p].exists
           /\ \A p \in TempsOfEndedExport :
                 files[p].exists => p \in hist.cleanup_left
           /\ \A p \in hist.cleanup_removed : ~files[p].exists
           /\ (pc = "after_export") = (ex.raised = "none")
           /\ (pc = "after_export") => ex.returned
           /\ ex.raised \in {"none", "Speed-up failed", "Speed-up invalid",
                             "Concat failed", "Concat invalid",
                             "All codecs failed", "ZeroDivisionError",
                             "KeyboardInterrupt"}

\* an export returned, one temporary could not be deleted and the others
\* were
C11_Witness ==
    /\ ExportEnded
    /\ pc = "after_export"
    /\ Cardinality(hist.cleanup_left) = 1
    /\ Cardinality(hist.cleanup_removed) = 2

\* C12: when 0 is typed as the number of exports, no export is ever
\* started (no output path is chosen, no stage of the pipeline runs, no
\* file is touched by one) and the run ends in error; unless something
\* failed before the number was read (a dependency, the video, an
\* interrupt) the error is the input error of the exports prompt.
C12_ZeroExportsRejected ==
    cfg.num_exports = 0
        => /\ pc \in {"deps", "inputs", "main_except", "exited"}
           /\ mn.i = 0 /\ mn.output_path = NoPath /\ mn.exported_files = <<>>
           /\ ex = ExInit /\ hist = HistInit
           /\ \A p \in Paths \ {video_path} : files[p].by[1] \in {"none", "old"}
           /\ pc \in {"main_except", "exited"}
                 => mn.error \in {"ValueError: exports", "SystemError",
                                  "FileNotFoundError", "ValueError: video",
                                  "KeyboardInterrupt"}
           /\ pc = "exited" => mn.exit_code = 1

\* the run that typed 0 ended on the input error of the exports prompt
C12_Witness ==
    /\ cfg.num_exports = 0
    /\ pc = "exited"
    /\ mn.error = "ValueError: exports"
    /\ mn.exit_code = 1

\* C13 (as stated): the process ends with code 1 after every fatal error,
\* a failed invocation of a stage included, and with code 0 only on normal
\* completion.
C13_ExitCodes ==
    pc = "exited"
        => /\ mn.exit_code \in {0, 1}
           /\ (mn.exit_code = 1) = (mn.error # "none" \/ mn.hue_failed)

\* the corrector has measured at least one attempt and has not raised
AttemptMeasured ==
    /\ PitchExport
    /\ pc \in {"attempt", "rerun", "final", "concat"}
    /\ hist.attempts >= 1
    /\ ex.raised = "none"

\* one millisecond and half of one frame at the original frame rate, in ticks
OneMillisecond == Rat(TicksPerSecond, 1000)
HalfFrame == RatDiv(Rat(TicksPerSecond, cfg.original_fps), RatOf(2))

\* C14: the loop has ended as converged exactly when the error of the last
\* measured attempt is at most min(1 ms, half a frame); an attempt within
\* that bound ends the loop whatever its number, one above it never ends it
\* as converged.
C14_ConvergedIffWithinThreshold ==
    AttemptMeasured
        => /\ (hist.outcome = "converged")
                 = (RatLE(ex.duration_error, OneMillisecond)
                    /\ RatLE(ex.duration_error, HalfFrame))
           /\ hist.outcome = "converged" => pc \in {"final", "concat"}
           /\ pc = "attempt" => hist.outcome = "none"

\* a third attempt converged with an error of exactly half a frame, which
\* is less than a millisecond
C14_Witness ==
    /\ AttemptMeasured
    /\ hist.outcome = "converged"
    /\ hist.attempts = 3
    /\ ex.duration_error = HalfFrame
    /\ RatLT(HalfFrame, OneMillisecond)

FixedPitchExport ==
    ~cfg.use_moviepy /\ cfg.enable_pitch /\ ~cfg.enable_special_pitch

\* the error of the duplicated clip against the source duration
DuplicatedError ==
    DurationError(files[temp_concat_of(ex.export_num)].dur,
                  RatOf(mn.original_video_duration))

\* C15 (as stated): in fixed pitch mode, once the Duplication Stage has
\* produced and verified the doubled clip, its duration is within
\* min(1 ms, half a frame) of the source duration, in every export.
C15_DuplicatedWithinThreshold ==
    (FixedPitchExport /\ pc = "codecs") => RatLE(DuplicatedError, Threshold)

\* C16: two runs of one export with the same arguments, whose tools and
\* probes answer alike, are at every step at the same place with the same
\* locals (attempt count, tempo, best values, candidate index and list) and
\* the same record of attempts and candidates tried, whatever was left at
\* the output path; once the encoder has been run, and when the call has
\* returned, both runs have an output or neither has, and the two durations
\* differ by no more than the precision threshold
TwinOutput(i) == files[i][mn[i].output_path]

C17_ImprovingAttemptRetries ==
    (PitchExport /\ pc \in {"rerun", "final", "concat"}
       /\ hist.outcome = "stagnated") =>
        /\ hist.attempts >= 4
        /\ RatLE(hist.prev_best, ex.duration_error)

StagnationStop ==
    PitchExport /\ pc \in {"final", "concat"} /\ hist.outcome = "stagnated"

SpedClip == files[temp_sped_of(ex.export_num)]

\* the last attempt is the one whose values are tracked as the best
LastIsTrackedBest == RatLT(ex.duration_error, hist.prev_best)

Retried == PitchExport /\ pc = "attempt" /\ pc' = "attempt"

InRange(x, lo, hi) == RatLE(lo, x) /\ RatLE(x, hi)

\* C19: a retry multiplies the tempo by measured / target and takes the
\* reciprocal of the product as the time scale, then brings the tempo into
\* [0.5, 100] and the time scale into [0.01, 2.0]
C19_RetryPlan ==
    [][Retried =>
         LET corrected == RatMul(ex.tempo,
                                 RatDiv(RatOf(ex'.actual_sped_duration),
                                        ex.target_sped_duration))
             scale == RatDiv(RatOf(1), corrected)
         IN  /\ ex'.attempt = ex.attempt + 1
             /\ ex'.tempo = (IF RatLT(corrected, Rat(1, 2)) THEN Rat(1, 2)
                             ELSE IF RatLT(RatOf(100), corrected) THEN RatOf(100)
                             ELSE corrected)
             /\ ex'.video_pts = (IF RatLT(scale, Rat(1, 100)) THEN Rat(1, 100)
                                 ELSE IF RatLT(RatOf(2), scale) THEN RatOf(2)
                                 ELSE scale)
             /\ InRange(ex'.tempo, Rat(1, 2), RatOf(100))
             /\ InRange(ex'.video_pts, Rat(1, 100), RatOf(2))]_vars

\* the 4th attempt is planned after three retries in which both clamps
\* have acted
C19_Witness ==
    /\ PitchExport /\ pc = "attempt" /\ ex.attempt = 3
    /\ ex.tempo = RatOf(100) /\ ex.video_pts = Rat(1, 100)

InCorrector == PitchExport /\ pc \in {"attempt", "rerun", "final", "concat"}

\* C20: the tracked best error is the smallest error measured so far (so
\* no attempt raises it), and the tracked best tempo, time scale and
\* duration are those of the first attempt that measured it
C20_BestIsEarliestMinimum ==
    InCorrector =>
        /\ ex.best_error = hist.earliest_min.error
        /\ RatLE(ex.best_error, hist.prev_best)
        /\ RatLE(ex.best_error, hist.first_error)
        /\ ex.best_error # Inf =>
              /\ ex.best_tempo = hist.earliest_min.tempo
              /\ ex.best_video_pts = hist.earliest_min.video_pts
              /\ ex.best_duration = hist.earliest_min.duration

\* four attempts were measured; the last ties the smallest error under
\* another plan and the tracked best is still the earlier one
C20_Witness ==
    /\ InCorrector /\ hist.attempts = 4
    /\ ex.duration_error = ex.best_error
    /\ ex.best_error # hist.first_error
    /\ ex.tempo # ex.best_tempo

ConcatClip == files[temp_concat_of(ex.export_num)]

\* C21: the candidates are listed and tried only after a concat invocation
\* that exited 0 and left a file of positive duration; a concat invocation
\* that exits non-zero, or leaves no such file, ends the export with an
\* exception before any candidate is tried
C21_EncodeAfterVerifiedConcat ==
    /\ (~cfg.use_moviepy /\ pc \in {"codecs", "encode"}) =>
          /\ hist.concat_rc = 0
          /\ ConcatClip.exists /\ ConcatClip.dur > 0
          /\ ex.raised = "none"
    /\ (~cfg.use_moviepy /\ pc = "finally" /\ hist.concat_rc # -1
          /\ (hist.concat_rc # 0 \/ ~ConcatClip.exists \/ ConcatClip.dur <= 0)) =>
          /\ ex.raised \in {"Concat failed", "Concat invalid"}
          /\ hist.tried = <<>> /\ ~ex.returned

\* a concat invocation exited 0 but left a file without duration: the
\* export has raised and no candidate was tried
C21_Witness ==
    /\ ~cfg.use_moviepy /\ pc = "finally"
    /\ hist.concat_rc = 0 /\ ConcatClip.exists /\ ConcatClip.dur = 0
    /\ ex.raised = "Concat invalid"

\* C22: a candidate is accepted only when the file it left exists, is at
\* least 1 KB in size and has a positive duration
C22_TrivialSizeRejected ==
    (pc = "checked" /\ ex.success) =>
        files.exists /\ files.size_kb > 0 /\ files.dur > 0
Taken(k) == files[ExportPath(cfg.n, k)].exists

UniqueEnded == pc \in {"returned", "raised"}

\* C23: get_unique_filename ends; it returns the unsuffixed name when it is
\* free, otherwise the smallest free suffix in 1..999, and raises exactly
\* when the unsuffixed name and the suffixes 1..999 are all taken; the name
\* returned is free
C23_SmallestFreeSuffix ==
    /\ <>UniqueEnded
    /\ [](UniqueEnded =>
            /\ (pc = "raised") = (\A k \in 0 .. OID_LIMIT : Taken(k))
            /\ pc = "returned" =>
                  /\ mn.oID \in 0 .. OID_LIMIT
                  /\ ~Taken(mn.oID)
                  /\ \A k \in 0 .. (mn.oID - 1) : Taken(k))

\* the unsuffixed name and the suffixes up to 998 are taken, 999 is free
\* and is the one returned
C23_Witness ==
    /\ pc = "returned" /\ mn.oID = OID_LIMIT
    /\ \A k \in 0 .. (OID_LIMIT - 1) : Taken(k)

\* C24: in an ffmpeg export, while the clip is sped up and corrected
\* nothing has been concatenated or encoded; the duplication starts with
\* the corrector at its end (converged, stagnated or exhausted; in mode
\* None after the one speedup) and with nothing encoded; the candidates are
\* tried with the verified concat output in place; and an export runs
\* only when every earlier one has returned, with its output as the input
C24_StagesInOrder ==
    LET speeding == pc \in {"start", "plan", "attempt", "rerun", "final", "speedup"}
        encoding == pc \in {"codecs", "encode"}
        out == files[mn.output_path]
    IN  (~cfg.use_moviepy /\ (speeding \/ pc = "concat" \/ encoding)) =>
          /\ speeding \/ pc = "concat" => ~ConcatClip.exists /\ ~out.exists
          /\ speeding => hist.concat_rc = -1 /\ hist.tried = <<>>
          /\ pc = "concat" =>
                /\ hist.concat_rc = -1 /\ hist.tried = <<>>
                /\ IF PitchExport
                   THEN hist.outcome \in {"converged", "stagnated", "exhausted"}
                   ELSE hist.speed_calls = 1 /\ ~hist.speed_bad
          /\ encoding =>
                /\ ConcatClip.exists /\ ConcatClip.by = <<"concat", 0>>
                /\ out.exists => out.by[1] = "encode"
          /\ mn.i = Len(mn.exported_files)
          /\ ex.export_num = cfg.start_num + mn.i
          /\ \A j \in 1 .. mn.i : files[mn.exported_files[j]].by = <<"export", 0>>
          /\ mn.current_input = (IF mn.i = 0 THEN video_path
                                 ELSE mn.exported_files[mn.i])

\* the second export of a pitch run has reached its encoder loop and has
\* tried a candidate
C24_Witness ==
    /\ PitchExport /\ pc = "encode" /\ mn.i = 1
    /\ hist.tried # <<>>
    /\ files[mn.exported_files[1]].exists

\* ---- pitch selection of an export (lines 339-344, 1004-1014) as main's
\* loop calls it (lines 1784-1826); a pitch ratio 2^(s/12) is held as its
\* number of semitones s, so ratio 1.0 is 0
SPECIAL_PITCH_UP == 7
SPECIAL_PITCH_DOWN == -5
FIXED_PITCH_RATIO == 1
MaxStart == 2

get_special_pitch_for_iteration(iteration) ==
    IF iteration % 2 = 0
    THEN [pitch_ratio |-> SPECIAL_PITCH_UP, pitch_semitones |-> "+7"]
    ELSE [pitch_ratio |-> SPECIAL_PITCH_DOWN, pitch_semitones |-> "-5"]

select_pitch(enable_pitch, enable_special_pitch, iteration) ==
    IF enable_special_pitch THEN get_special_pitch_for_iteration(iteration)
    ELSE IF enable_pitch
    THEN [pitch_ratio |-> FIXED_PITCH_RATIO, pitch_semitones |-> "+1"]
    ELSE [pitch_ratio |-> 0, pitch_semitones |-> "0"]

iteration_arg_ExportNum(export_num, i) == export_num

\* the fourth positional argument of process_video_cumulative
iteration_arg(export_num, i) == i

\* the pitch the speedup command's audio filter carries
filter_pitch(c, pitch_ratio) ==
    IF (c.enable_pitch \/ c.enable_special_pitch) /\ c.has_audio
    THEN pitch_ratio ELSE 0

PitchInit ==
    /\ cfg \in {c \in [enable_pitch : BOOLEAN, enable_special_pitch : BOOLEAN,
                       has_audio : BOOLEAN, start_num : 0 .. MaxStart,
                       num_exports : 1 .. (MaxExports + 1)] :
                  c.enable_special_pitch => c.enable_pitch}
    /\ files = <<>>
    /\ pc = "loop"
    /\ mn = [i |-> 0]
    /\ ex = <<>>
    /\ hist = <<>>

SelectPitch ==
    /\ pc = "loop" /\ mn.i < cfg.num_exports
    /\ LET export_num == cfg.start_num + mn.i
           p == select_pitch(cfg.enable_pitch, cfg.enable_special_pitch,
                             iteration_arg(export_num, mn.i))
           e == [export_num |-> export_num, pitch_ratio |-> p.pitch_ratio,
                 pitch_semitones |-> p.pitch_semitones,
                 filter |-> filter_pitch(cfg, p.pitch_ratio)]
       IN  /\ ex' = e
           /\ hist' = Append(hist, e)
    /\ mn' = [mn EXCEPT !.i = @ + 1]
    /\ UNCHANGED <<cfg, files, pc>>

PitchLoopEnd ==
    /\ pc = "loop" /\ mn.i = cfg.num_exports
    /\ pc' = "done"
    /\ UNCHANGED <<cfg, files, mn, ex, hist>>

PitchNext == SelectPitch \/ PitchLoopEnd

SpecPitch == PitchInit /\ [][PitchNext]_vars

\* C25: the j-th export of a run (0-based j) gets +7 semitones when special
\* mode is on and j is even, -5 when special mode is on and j is odd, +1
\* when only fixed mode is on and 0 (ratio 1.0) in mode None, whatever the
\* starting number and the export number; with an audio stream this is the
\* pitch the speedup filter carries
C25_PitchByIteration ==
    \A k \in 1 .. Len(hist) :
        LET j == k - 1
            want == IF cfg.enable_special_pitch
                    THEN (IF j % 2 = 0 THEN 7 ELSE -5)
                    ELSE IF cfg.enable_pitch THEN 1 ELSE 0
        IN  /\ hist[k].export_num = cfg.start_num + j
            /\ hist[k].pitch_ratio = want
            /\ cfg.has_audio => hist[k].filter = want

\* a special-mode run starting at an odd number has made three exports:
\* the odd export numbers got +7, the even one -5
C25_Witness ==
    /\ pc = "done" /\ cfg.enable_special_pitch /\ cfg.has_audio
    /\ cfg.start_num = 1 /\ Len(hist) = 3
    /\ hist[1].pitch_ratio = 7 /\ hist[2].pitch_ratio = -5
    /\ hist[3].pitch_ratio = 7

\* ---- temporary files of two runs that share an output directory
\* (lines 996-1002, 1064-1068, 1179-1190, 1356-1362); a name is the
\* sequence of the pieces its f-string joins, numbers as decimal digits
RECURSIVE str(_)
str(n) ==
    LET digit(d) == <<"0", "1", "2", "3", "4", "5", "6", "7", "8", "9">>[d + 1]
    IN  IF n < 10 THEN <<digit(n)>>
        ELSE str(n \div 10) \o <<digit(n % 10)>>

temp_name_NoPid(kind, export_num, pid, ext) ==
    <<"temp_", kind, "_">> \o str(export_num) \o <<ext>>

temp_name(kind, export_num, pid, ext) ==
    <<"temp_", kind, "_">> \o str(export_num) \o <<"_">> \o str(pid) \o <<ext>>

WriteNamed(fs, name, by) ==
    {f \in fs : f.name # name} \cup {[name |-> name, by |-> by]}

RemoveNamed(fs, name) == {f \in fs : f.name # name}

Runs == {1, 2}
RunPids == <<2, 12>>
RunStarts == {1, 11}

TempOf(r, kind, i) ==
    temp_name(kind, cfg.start_num[r] + i, cfg.pid[r],
              IF kind = "list" THEN ".txt"
              ELSE get_file_extension(cfg.smooth_mode[r]))

TempsInit ==
    /\ cfg \in [pid : {RunPids}, start_num : [Runs -> RunStarts],
                smooth_mode : {[r \in Runs |-> FALSE]},
                num_exports : {MaxExports}]
    /\ files = {}
    /\ pc = [r \in Runs |-> "start"]
    /\ mn = [r \in Runs |-> [i |-> 0]]
    /\ ex = [r \in Runs |-> [made |-> {}]]
    /\ hist = <<>>

\* lines 1064-1075 and 1151-1162: a stale temp_sped is removed and the
\* speedup writes it
TempSpeedup(r) ==
    /\ pc[r] = "start"
    /\ \E ok \in BOOLEAN :
         IF ok
         THEN /\ files' = WriteNamed(RemoveNamed(files, TempOf(r, "sped", mn[r].i)),
                                TempOf(r, "sped", mn[r].i), <<r, mn[r].i>>)
              /\ ex' = [ex EXCEPT ![r].made = @ \cup {"sped"}]
              /\ pc' = [pc EXCEPT ![r] = "sped"]
         ELSE /\ files' = RemoveNamed(files, TempOf(r, "sped", mn[r].i))
              /\ pc' = [pc EXCEPT ![r] = "failed"]
              /\ UNCHANGED ex
    /\ UNCHANGED <<cfg, mn, hist>>

\* lines 1179-1182
TempList(r) ==
    /\ pc[r] = "sped"
    /\ files' = WriteNamed(files, TempOf(r, "list", mn[r].i), <<r, mn[r].i>>)
    /\ ex' = [ex EXCEPT ![r].made = @ \cup {"list"}]
    /\ pc' = [pc EXCEPT ![r] = "listed"]
    /\ UNCHANGED <<cfg, mn, hist>>

\* lines 1184-1199
TempConcat(r) ==
    /\ pc[r] = "listed"
    /\ \E ok \in BOOLEAN :
         IF ok
         THEN /\ files' = WriteNamed(files, TempOf(r, "concat", mn[r].i), <<r, mn[r].i>>)
              /\ ex' = [ex EXCEPT ![r].made = @ \cup {"concat"}]
              /\ pc' = [pc EXCEPT ![r] = "encode"]
         ELSE /\ pc' = [pc EXCEPT ![r] = "failed"]
              /\ UNCHANGED <<files, ex>>
    /\ UNCHANGED <<cfg, mn, hist>>

\* lines 1356-1362, then main's loop goes on or the run ends
TempFinally(r) ==
    /\ pc[r] \in {"encode", "failed"}
    /\ files' = RemoveNamed(RemoveNamed(RemoveNamed(files, TempOf(r, "sped", mn[r].i)),
                              TempOf(r, "list", mn[r].i)),
                       TempOf(r, "concat", mn[r].i))
    /\ ex' = [ex EXCEPT ![r].made = {}]
    /\ IF pc[r] = "encode" /\ mn[r].i + 1 < cfg.num_exports
       THEN /\ mn' = [mn EXCEPT ![r].i = @ + 1]
            /\ pc' = [pc EXCEPT ![r] = "start"]
       ELSE /\ pc' = [pc EXCEPT ![r] = "done"]
            /\ UNCHANGED mn
    /\ UNCHANGED <<cfg, hist>>

TempsNext ==
    \E r \in Runs :
        TempSpeedup(r) \/ TempList(r) \/ TempConcat(r) \/ TempFinally(r)

SpecTemps == TempsInit /\ [][TempsNext]_vars

\* C26: the temporary names of two runs with different process ids, and of
\* two iterations of one run, are all different, and every temporary file
\* an export has written stays in place, as that export wrote it, until
\* the export's own finalizer
C26_TempsApart ==
    /\ \A r1, r2 \in Runs : \A i1, i2 \in 0 .. (cfg.num_exports - 1) :
       \A k1, k2 \in {"sped", "list", "concat"} :
          (TempOf(r1, k1, i1) = TempOf(r2, k2, i2))
              => (r1 = r2 /\ i1 = i2 /\ k1 = k2)
    /\ \A r \in Runs : \A k \in ex[r].made :
          [name |-> TempOf(r, k, mn[r].i), by |-> <<r, mn[r].i>>] \in files

\* both runs are at the same export number with all their temporaries
\* written: six files
C26_Witness ==
    /\ pc[1] = "encode" /\ pc[2] = "encode"
    /\ cfg.start_num[1] + mn[1].i = cfg.start_num[2] + mn[2].i
    /\ Cardinality(files) = 6

\* C27: a pitch export measures at most 4 attempts and invokes the speedup
\* at most 5 times, the fifth being the re-run of the stagnation stop; once
\* a fourth attempt is measured the loop has ended, converged or stagnated,
\* or the export has raised
C27_FourAttemptsFiveCalls ==
    PitchExport =>
        /\ hist.attempts <= 4
        /\ hist.speed_calls <= 5
        /\ hist.speed_calls <= hist.attempts + (IF hist.rerun THEN 1 ELSE 0)
        /\ hist.attempts = 4 =>
              /\ pc # "attempt"
              /\ pc \in {"rerun", "final", "concat"} =>
                    hist.outcome \in {"converged", "stagnated"}

\* four attempts none of which converged, the fourth not the best, and
\* the re-run: five invocations
C27_Witness ==
    /\ PitchExport /\ pc = "final"
    /\ hist.attempts = 4 /\ hist.speed_calls = 5
    /\ hist.outcome = "stagnated" /\ hist.rerun

\* ---- the plan and the corrector of a second export whose input and
\* source durations are drawn from 1..MaxPlanDur (lines 1016-1039,
\* 1051-1128)
MaxPlanDur == 6

PlanInit ==
    /\ cfg \in {c \in Configs :
                  /\ c.enable_pitch /\ ~c.enable_special_pitch
                  /\ ~c.use_moviepy /\ ~c.smooth_mode /\ ~c.enable_color_mode
                  /\ ~c.rm_fails /\ c.num_exports = 2 /\ c.original_fps = 30}
    /\ \E d_orig \in 1 .. MaxPlanDur, d_in \in 1 .. MaxPlanDur :
         /\ files = [p \in Paths |->
                       IF p = video_path THEN File(d_orig, "source", 0)
                       ELSE IF p = ExportPath(cfg.start_num, 0)
                            THEN File(d_in, "export", 0)
                       ELSE NoFile]
         /\ mn = [i |-> 1, current_input |-> ExportPath(cfg.start_num, 0),
                  output_path |-> ExportPath(cfg.start_num + 1, 0),
                  exported_files |-> <<ExportPath(cfg.start_num, 0)>>,
                  original_video_duration |-> d_orig,
                  exit_code |-> -1, error |-> "none",
                  targets |-> {Rat(d_orig, 2)}, hue_failed |-> FALSE]
         /\ ex = [ExInit EXCEPT
                    !.export_num = cfg.start_num + 1,
                    !.input_duration = d_in,
                    !.temp_files = {temp_sped_of(cfg.start_num + 1),
                                    temp_list_of(cfg.start_num + 1),
                                    temp_concat_of(cfg.start_num + 1)}]
    /\ pc = "plan"
    /\ hist = HistInit

PlanNext == Plan \/ Attempt \/ Rerun

SpecPlan == PlanInit /\ [][PlanNext]_vars

\* C28: whenever a pitch export is about to invoke the speedup, the first
\* time with the initial plan included, the tempo it passes is within
\* [0.5, 100] and the time scale within [0.01, 2.0]
C28_InvocationWithinClamp ==
    (PitchExport /\ pc \in {"attempt", "rerun"}) =>
        LET tempo == IF pc = "rerun" THEN ex.best_tempo ELSE ex.tempo
            video_pts == IF pc = "rerun" THEN ex.best_video_pts ELSE ex.video_pts
        IN  /\ RatLE(Rat(1, 2), tempo) /\ RatLE(tempo, RatOf(100))
            /\ RatLE(Rat(1, 100), video_pts) /\ RatLE(video_pts, RatOf(2))

\* C29: once an ffmpeg export has raised because every candidate failed,
\* there is no file at its output path
C29_NoOutputAfterAllFailed ==
    (~cfg.use_moviepy /\ pc \in {"main_except", "exited"}
       /\ ex.raised = "All codecs failed") =>
        ~files[mn.output_path].exists

\* C30: no step changes the source video, an export file that was there
\* before the run, or the output of an earlier iteration; a step changes
\* only the current export's temporaries and its output path; and the
\* output path is one at which no file existed when it was chosen
C30_OnlyOwnFilesTouched ==
    [][/\ files' # files =>
            \A p \in DOMAIN files :
               files'[p] # files[p] =>
                  /\ p # video_path
                  /\ files[p].by # <<"old", 0>>
                  /\ \A j \in 1 .. Len(mn.exported_files) :
                        p # mn.exported_files[j]
                  /\ p \in ex.temp_files \cup ex'.temp_files \cup {mn.output_path}
       /\ (pc = "loop" /\ pc' \in {"start", "mp_open"}) =>
              ~files[mn'.output_path].exists]_vars

\* the second export has raised after writing to its output path; the first
\* export's output, the export file left by an earlier run and the source
\* are in place
C30_Witness ==
    /\ pc = "exited" /\ mn.exit_code = 1 /\ mn.i = 1
    /\ ex.raised = "All codecs failed"
    /\ files[mn.output_path].exists
    /\ files[mn.exported_files[1]].exists
    /\ files[mn.exported_files[1]].by = <<"export", 0>>
    /\ files[ExportPath(cfg.start_num, 0)].by = <<"old", 0>>
    /\ files[video_path].exists

====
